---- MODULE Spec2Model ----
(***************************************************************************)
(* Hodgkin-Huxley action-potential model of ex4_HH.py: the channel state   *)
(* spaces the script declares, its rate law, its channel injection and the *)
(* run of the coupled gating / membrane-potential simulation it starts.    *)
(*                                                                         *)
(* Units.  Potentials are integers in 0.1 mV (the step of Vrange), times   *)
(* in microseconds, conductances in 0.1 pS, currents in 1e-17 A, the       *)
(* population-factor tables in 1e-5, densities in 1e12 per square metre.   *)
(***************************************************************************)
EXTENDS Integers, Sequences, FiniteSets, TLC

VARIABLES
    \* Channel.Create: the subunit list handed in, the states generated
    cPc, cSub, cStates,
    \* HHRateFunction: the rate law, the voltage, the rounding residues of
    \* num and denom, and the value returned
    rPc, rLaw, rV, rEpsNum, rEpsDen, rOut,
    \* the simulation
    pc, endt, chanCap, evCap, iclamp,
    assigned, used, indexError,
    Count, total0, V, t, nextSave, nsaved, nsolve, solveAtSave, nev, quiet

createVars == <<cPc, cSub, cStates>>
rateVars == <<rPc, rLaw, rV, rEpsNum, rEpsDen, rOut>>
simVars == <<pc, endt, chanCap, evCap, iclamp, assigned, used, indexError,
             Count, total0, V, t, nextSave, nsaved, nsolve, solveAtSave, nev,
             quiet>>
vars == <<createVars, rateVars, simVars>>

(***************************************************************************)
(* Small arithmetic helpers.                                               *)
(***************************************************************************)
Abs(x) == IF x < 0 THEN -x ELSE x

Sign(x) == IF x < 0 THEN -1 ELSE IF x > 0 THEN 1 ELSE 0

\* Quotient rounded towards zero.
TruncDiv(a, b) == Sign(a) * Sign(b) * (Abs(a) \div Abs(b))

RECURSIVE SumOver(_, _)
SumOver(f, S) ==
    IF S = {} THEN 0
    ELSE LET x == CHOOSE y \in S : TRUE IN f[x] + SumOver(f, S \ {x})

RECURSIVE SeqSum(_)
SeqSum(s) == IF s = <<>> THEN 0 ELSE Head(s) + SeqSum(Tail(s))

RECURSIVE SeqProd(_)
SeqProd(s) == IF s = <<>> THEN 1 ELSE Head(s) * SeqProd(Tail(s))

(***************************************************************************)
(* Subunits and channels (the model block of the script).                  *)
(***************************************************************************)
KSU == {"Ko", "Kc"}

NamSU == {"Na_mo", "Na_mc"}

NahSU == {"Na_hi", "Na_ha"}

\* Leak is created from the bare subunit state lsus: a subunit of one state.
LsusSU == {"lsus"}

SubUnits == {KSU, NamSU, NahSU, LsusSU}

VGKC == <<KSU, KSU, KSU, KSU>>

VGNaC == <<NamSU, NamSU, NamSU, NahSU>>

Leak == <<LsusSU>>

Channels == {"VGKC", "VGNaC", "Leak"}

SubUnitsOf(ch) ==
    CASE ch = "VGKC" -> VGKC
      [] ch = "VGNaC" -> VGNaC
      [] ch = "Leak" -> Leak

\* The subunit states that occur in a channel built from the list su.
Names(su) == UNION {su[i] : i \in DOMAIN su}

\* All ordered assignments of one state to every subunit of the list.
RECURSIVE Tuples(_)
Tuples(su) ==
    IF su = <<>> THEN {<<>>}
    ELSE {<<a>> \o rest : a \in Head(su), rest \in Tuples(Tail(su))}

\* A channel state records how many subunits are in each subunit state:
\* this is what state.Count(Ko) reads, and the population tables hold one
\* entry per such count (n0..n4, m0h0..m3h1), so assignments that differ
\* only in the order of like subunits are one and the same state.
StateOf(tuple, names) ==
    [n \in names |-> Cardinality({i \in DOMAIN tuple : tuple[i] = n})]

\* A builder that collapses the repeated subunits of the list before use.
RECURSIVE Dedup(_)
Dedup(su) ==
    IF su = <<>> THEN <<>>
    ELSE IF \E i \in DOMAIN Tail(su) : Tail(su)[i] = Head(su)
         THEN Dedup(Tail(su))
         ELSE <<Head(su)>> \o Dedup(Tail(su))

StatesDedup(su) ==
    {StateOf(tp, Names(su)) : tp \in Tuples(Dedup(su))}

\* Channel.Create(su): the states of the channel.
States(su) == {StateOf(tp, Names(su)) : tp \in Tuples(su)}

\* state.Count(name)
CountOf(state, name) == IF name \in DOMAIN state THEN state[name] ELSE 0

\* Number of subunit positions in which two states of one channel differ:
\* moving one subunit from state a to state b changes two entries by one.
Distance(s, d) ==
    SumOver([n \in DOMAIN s |-> Abs(s[n] - d[n])], DOMAIN s) \div 2

Neighbours(s, all) == {d \in all : Distance(s, d) = 1}

(***************************************************************************)
(* Channel.Create as a step of its own, over every subunit list of up to   *)
(* MaxSubunits subunits.                                                   *)
(***************************************************************************)
MaxSubunits == 4

SubunitLists ==
    UNION {[1..n -> SubUnits] : n \in 1..MaxSubunits}

SimIdle ==
    /\ pc = "idle" /\ endt = 0 /\ chanCap = 0 /\ evCap = 0 /\ iclamp = 0
    /\ assigned = <<>> /\ used = <<>> /\ indexError = FALSE
    /\ Count = <<>> /\ total0 = <<>> /\ V = <<>> /\ t = 0
    /\ nextSave = 0 /\ nsaved = 0 /\ nsolve = 0 /\ solveAtSave = 0
    /\ nev = 0 /\ quiet = TRUE

RateIdle ==
    /\ rPc = "idle" /\ rLaw = "none" /\ rV = 0
    /\ rEpsNum = 0 /\ rEpsDen = 0 /\ rOut = <<>>

CreateIdle == cPc = "idle" /\ cSub = <<>> /\ cStates = {}

InitCreate ==
    /\ cPc = "declared"
    /\ cSub \in SubunitLists
    /\ cStates = {}
    /\ RateIdle
    /\ SimIdle

Create ==
    /\ cPc = "declared"
    /\ cStates' = States(cSub)
    /\ cPc' = "created"
    /\ UNCHANGED <<cSub, rateVars, simVars>>

SpecCreate == InitCreate /\ [][Create]_vars

\* k_i of every subunit of the list
Sizes(su) == [i \in DOMAIN su |-> Cardinality(su[i])]

\* How many subunits of the list are the subunit u
Copies(su, u) == Cardinality({i \in DOMAIN su : su[i] = u})

\* Number of ways to spread n like subunits over the k states of u when
\* their order does not matter: C(n + k - 1, k - 1), which is 1 for k = 1
\* and n + 1 for k = 2 (the only sizes the script declares).
Spread(n, k) == IF k = 1 THEN 1 ELSE n + 1

RECURSIVE ProdOver(_, _)
ProdOver(f, S) ==
    IF S = {} THEN 1
    ELSE LET x == CHOOSE y \in S : TRUE IN f[x] * ProdOver(f, S \ {x})

UnorderedCount(su) ==
    LET used_su == {su[i] : i \in DOMAIN su}
    IN ProdOver([u \in used_su |-> Spread(Copies(su, u), Cardinality(u))],
                used_su)

\* Single-subunit changes open to a state: one per pair of a subunit state
\* that is present and another state of the same subunit.
Moves(s, su) ==
    {<<a, b>> \in Names(su) \X Names(su) :
        /\ a # b
        /\ s[a] > 0
        /\ \E i \in DOMAIN su : a \in su[i] /\ b \in su[i]}

\* C3 as stated: a channel of N subunits has exactly the product of the k_i
\* states, every state has exactly sum(k_i - 1) neighbours, none is its own.
C3_ProductOfSizes ==
    cPc = "created" =>
        /\ Cardinality(cStates) = SeqProd(Sizes(cSub))
        /\ \A s \in cStates :
            /\ Cardinality(Neighbours(s, cStates))
                 = SeqSum([i \in DOMAIN cSub |-> Cardinality(cSub[i]) - 1])
            /\ s \notin Neighbours(s, cStates)

\* C3 amended: the states are the assignments up to the order of like
\* subunits (5 for VGKC, 8 for VGNaC, 1 for Leak, never more than the
\* product of the k_i); the neighbours of a state are exactly its
\* single-subunit changes, at most sum(k_i - 1) of them; no state is its
\* own neighbour.
C3_UnorderedStates ==
    cPc = "created" =>
        /\ Cardinality(cStates) = UnorderedCount(cSub)
        /\ Cardinality(cStates) <= SeqProd(Sizes(cSub))
        /\ cSub = VGKC => Cardinality(cStates) = 5
        /\ cSub = VGNaC => Cardinality(cStates) = 8
        /\ cSub = Leak => Cardinality(cStates) = 1
        /\ \A s \in cStates :
            /\ Cardinality(Neighbours(s, cStates))
                 = Cardinality(Moves(s, cSub))
            /\ Cardinality(Neighbours(s, cStates))
                 <= SeqSum([i \in DOMAIN cSub |-> Cardinality(cSub[i]) - 1])
            /\ s \notin Neighbours(s, cStates)

C3_Witness ==
    /\ cPc = "created"
    /\ cSub = VGKC
    /\ Cardinality(cStates) = 5
    /\ \E s \in cStates : Cardinality(Neighbours(s, cStates)) = 2

(***************************************************************************)
(* HHRateFunction.  Real numbers are fixed-point integers in 1e-3; a       *)
(* quantity also carries the rounding residue of the floating-point        *)
(* evaluation, a few units in the last place and so far below the          *)
(* tolerance abs_tol = 1e-13, whereas one unit of the fixed-point part is  *)
(* far above it.                                                           *)
(***************************************************************************)
celsius == 20

\* Vrange = [-100 mV, 50 mV, 0.1 mV]: the voltages rates are tabulated at
VMin == -1000

VMax == 500

\* Largest rounding residue, in units in the last place
MaxUlp == 1

Residues == (-MaxUlp)..MaxUlp

\* e^k * 1e3 for k = 0..6 and e^-k * 1e6 for k = 1..11
EPos == <<1000, 2718, 7389, 20086, 54598, 148413, 403429>>

ENeg == <<367879, 135335, 49787, 18316, 6738, 2479, 912, 335, 123, 45, 17>>

\* Sum of the series 1 + x + x^2/2 + ... for x = r/q in [0, 1), in 1e-6
RECURSIVE Series(_, _, _, _)
Series(term, r, q, i) ==
    IF term = 0 THEN 0
    ELSE term + Series((term * r) \div (q * i), r, q, i + 1)

\* math.exp(n/q) in 1e-3, for q > 0 and -11 <= n/q < 7
ExpMilli(n, q) ==
    LET k == n \div q
        frac == Series(1000000, n % q, q, 1) \div 1000
    IN IF k >= 0 THEN (frac * EPos[k + 1]) \div 1000
       ELSE (frac * ENeg[-k]) \div 1000000

\* Product of two non-negative fixed-point numbers, in 1e-3
MulMilli(a, b) == ((a \div 10) * (b \div 10)) \div 10

\* The constant sets of the six gating rate laws: A, B, C and H in 1e-3,
\* D in mV, F as written.
Laws == {"a_n", "b_n", "a_m", "b_m", "a_h", "b_h"}

LawOf(law) ==
    CASE law = "a_n" -> [A |-> -550, B |-> -10, C |-> -1000, D |-> 55,
                         F |-> -10, H |-> 1000]
      [] law = "b_n" -> [A |-> 1000, B |-> 0, C |-> 0, D |-> 65,
                         F |-> 80, H |-> 8000]
      [] law = "a_m" -> [A |-> -4000, B |-> -100, C |-> -1000, D |-> 40,
                         F |-> -10, H |-> 1000]
      [] law = "b_m" -> [A |-> 1000, B |-> 0, C |-> 0, D |-> 65,
                         F |-> 18, H |-> 250]
      [] law = "a_h" -> [A |-> 1000, B |-> 0, C |-> 0, D |-> 65,
                         F |-> 20, H |-> 14286]
      [] law = "b_h" -> [A |-> 1000, B |-> 0, C |-> 1000, D |-> 35,
                         F |-> -10, H |-> 1000]

\* thi = 1e3 * 3^((celsius - 6.3)/10), with 3^y = exp(y * ln 3) and
\* ln 3 = 1.0986
Thi == ExpMilli(((celsius * 10 - 63) * 10986) \div 1000, 1000)

\* exp((V*1e3 + D)/F) for V = v * 1e-4 volts
ExpTerm(k, v) == ExpMilli(Sign(k.F) * (v + 10 * k.D), 10 * Abs(k.F))

\* num = A + B * V * 1e3
Num(k, v, eps) == [big |-> k.A + (k.B * v) \div 10, tiny |-> eps]

\* denom = C + H * exp((V*1e3 + D)/F)
Denom(k, v, eps) == [big |-> k.C + MulMilli(k.H, ExpTerm(k, v)), tiny |-> eps]

\* A comparison with zero that tolerates nothing
IsExactlyZero(x) == x.big = 0 /\ x.tiny = 0

\* math.isclose(x, 0, abs_tol=abs_tol)
IsClose(x) == x.big = 0

HHRateFunction(law, v, epsNum, epsDen) ==
    LET k == LawOf(law)
        num == Num(k, v, epsNum)
        denom == Denom(k, v, epsDen)
    IN IF IsClose(num) /\ IsClose(denom)
       THEN [branch |-> "limit", zerodiv |-> FALSE,
             value |-> TruncDiv(Thi * k.F * k.B,
                                MulMilli(k.H, ExpTerm(k, v)))]
       ELSE IF denom.big = 0 /\ denom.tiny = 0
       THEN [branch |-> "direct", zerodiv |-> TRUE, value |-> 0]
       ELSE IF denom.big = 0
       \* a quotient by a residue-sized denominator: enormous, of either sign
       THEN [branch |-> "direct", zerodiv |-> FALSE,
             value |-> Sign(num.big) * Sign(denom.tiny) * Thi * 100000]
       ELSE [branch |-> "direct", zerodiv |-> FALSE,
             value |-> TruncDiv(Thi * num.big, denom.big)]

InitRate ==
    /\ rPc = "called"
    /\ rLaw \in Laws
    /\ rV \in VMin..VMax
    /\ rEpsNum \in Residues
    /\ rEpsDen \in Residues
    /\ rOut = <<>>
    /\ CreateIdle
    /\ SimIdle

Eval ==
    /\ rPc = "called"
    /\ rOut' = HHRateFunction(rLaw, rV, rEpsNum, rEpsDen)
    /\ rPc' = "returned"
    /\ UNCHANGED <<rLaw, rV, rEpsNum, rEpsDen, createVars, simVars>>

SpecRate == InitRate /\ [][Eval]_vars

\* C5: the analytic limit is returned exactly when num and denom are both
\* within abs_tol of zero and the direct quotient otherwise; for the six
\* gating laws over the operating range no call divides by zero and every
\* returned rate is >= 0.
C5_RateFunction ==
    rPc = "returned" =>
        LET k == LawOf(rLaw)
            bothSmall == /\ Num(k, rV, rEpsNum).big = 0
                         /\ Denom(k, rV, rEpsDen).big = 0
        IN /\ (rOut.branch = "limit") <=> bothSmall
           /\ (rOut.branch = "direct") <=> ~bothSmall
           /\ ~rOut.zerodiv
           /\ rOut.value >= 0
           /\ bothSmall =>
                rOut.value = TruncDiv(Thi * k.F * k.B,
                                      MulMilli(k.H, ExpTerm(k, rV)))
           /\ ~bothSmall =>
                rOut.value = TruncDiv(Thi * Num(k, rV, rEpsNum).big,
                                      Denom(k, rV, rEpsDen).big)

\* The singular point of a_n, V = -55 mV, reached with a non-zero residue
\* in the numerator and an exactly zero denominator.
C5_Witness ==
    /\ rPc = "returned"
    /\ rLaw = "a_n" /\ rV = -550
    /\ rEpsNum # 0 /\ rEpsDen = 0
    /\ rOut.branch = "limit"
    /\ rOut.value > 0

(***************************************************************************)
(* Parameters of the script.                                               *)
(***************************************************************************)
K_G == 200

K_ro == 18

K_rev == -770

Na_G == 200

Na_ro == 60

Na_rev == 500

L_G == 3

L_ro == 10

leak_rev == -544

\* n0, n1, n2, n3, n4
K_facs == <<21768, 40513, 28093, 8647, 979>>

\* m0h0, m1h0, m2h0, m3h0 / m0h1, m1h1, m2h1, m3h1
Na_facs == << <<34412, 5733, 327, 6>>, <<50558, 8504, 449, 10>> >>

\* 50 pA
Iclamp == 5000000

DT_sim == 100

EfieldDT == 10

Potential0 == -650

\* 1 uF/cm^2, in 1e-2 F/m^2
Capac == 1

\* 100 ohm.cm, in ohm.m
VolRes == 1

(***************************************************************************)
(* The mesh: two membrane triangles of TriArea (in 1e-14 m^2) each, which  *)
(* form the patch; the first one touches one of the InjVerts vertices the  *)
(* clamp current is spread over.                                           *)
(***************************************************************************)
Tris == {1, 2}

InjTris == {1}

TriArea == 1

InjVerts == 200

\* surfarea = sim.patch.Area
SurfArea == TriArea * Cardinality(Tris)

(***************************************************************************)
(* Gating reactions and ohmic currents of the surface system.              *)
(***************************************************************************)
\* with VGKC[...]: Kc.s <r[1]> Ko.s, and the two reactions of VGNaC; each
\* changes one subunit, forwards with the first rate and backwards with the
\* second.
Reactions(ch) ==
    CASE ch = "VGKC" ->
           {[from |-> "Kc", to |-> "Ko", law |-> "a_n"],
            [from |-> "Ko", to |-> "Kc", law |-> "b_n"]}
      [] ch = "VGNaC" ->
           {[from |-> "Na_hi", to |-> "Na_ha", law |-> "a_h"],
            [from |-> "Na_ha", to |-> "Na_hi", law |-> "b_h"],
            [from |-> "Na_mc", to |-> "Na_mo", law |-> "a_m"],
            [from |-> "Na_mo", to |-> "Na_mc", law |-> "b_m"]}
      [] ch = "Leak" -> {}

\* A reaction that converts every subunit in state a at once
DestAll(s, a, b) == [s EXCEPT ![a] = 0, ![b] = @ + s[a]]

\* The state a channel in state s is in after one subunit went from a to b
Dest(s, a, b) == [s EXCEPT ![a] = @ - 1, ![b] = @ + 1]

\* A reaction that produces without consuming
MoveNoSource(cnt, s, d) == [cnt EXCEPT ![d] = @ + 1]

\* The effect of one reaction event on the counts of a channel on an
\* element: one channel leaves state s and one enters state d.
Move(cnt, s, d) == [cnt EXCEPT ![s] = @ - 1, ![d] = @ + 1]

\* VGKC[Ko, Ko, Ko, Ko], VGNaC[Na_mo, Na_mo, Na_mo, Na_ha], Leak[lsus]
OpenStates ==
    [ch \in Channels |->
        CASE ch = "VGKC" -> StateOf(<<"Ko", "Ko", "Ko", "Ko">>, Names(VGKC))
          [] ch = "VGNaC" ->
               StateOf(<<"Na_mo", "Na_mo", "Na_mo", "Na_ha">>, Names(VGNaC))
          [] ch = "Leak" -> StateOf(<<"lsus">>, Names(Leak))] @@ <<>>

\* The conducting state of each ohmic current
OpenState(ch) == OpenStates[ch]

Conductance(ch) ==
    CASE ch = "VGKC" -> K_G [] ch = "VGNaC" -> Na_G [] ch = "Leak" -> L_G

Reversal(ch) ==
    CASE ch = "VGKC" -> K_rev [] ch = "VGNaC" -> Na_rev
      [] ch = "Leak" -> leak_rev

\* An ohmic current that counts every channel with an open subunit
CountAnyOpen(cnt, ch) ==
    SumOver([s \in DOMAIN cnt |->
               IF \E n \in DOMAIN s : s[n] > 0 /\ OpenState(ch)[n] > 0
               THEN cnt[s] ELSE 0],
            DOMAIN cnt)

\* The channels an ohmic current conducts through: those in its one state
CountOpen(cnt, ch) == cnt[OpenState(ch)]

(***************************************************************************)
(* Channel injection.                                                      *)
(***************************************************************************)
Density(ch) ==
    CASE ch = "VGKC" -> K_ro [] ch = "VGNaC" -> Na_ro [] ch = "Leak" -> L_ro

\* The index the script reads the population table at, for a state
TableIndex(ch, state) ==
    CASE ch = "VGKC" -> <<CountOf(state, "Ko")>>
      [] ch = "VGNaC" -> <<CountOf(state, "Na_ha"), CountOf(state, "Na_mo")>>
      [] ch = "Leak" -> <<>>

\* The indices a table has (Python indices, from 0)
TableIndices(ch) ==
    CASE ch = "VGKC" -> {<<i - 1>> : i \in DOMAIN K_facs}
      [] ch = "VGNaC" ->
           {<<i - 1, j - 1>> : i \in DOMAIN Na_facs, j \in DOMAIN Na_facs[1]}
      [] ch = "Leak" -> {<<>>}

\* The table entry at an index; Leak has no table, its factor is 1
TableAt(ch, idx) ==
    CASE ch = "VGKC" -> K_facs[idx[1] + 1]
      [] ch = "VGNaC" -> Na_facs[idx[1] + 1][idx[2] + 1]
      [] ch = "Leak" -> 100000

\* The states of the three channels, generated once when the model is built
ChannelStates == [ch \in Channels |-> States(SubUnitsOf(ch))] @@ <<>>

\* for state in ch: the states the loop visits
StatesOf(ch) == ChannelStates[ch]

\* ro * surfarea * prop, in 1e-7 channels
Assigned(ch, state) ==
    Density(ch) * SurfArea * TableAt(ch, TableIndex(ch, state))

\* The solver turns the real count x it is given into whole channels,
\* floor(x) or, when x has a fractional part, possibly one more, and
\* spreads them over the triangles of the patch: <<c, i>> is c channels
\* of which i go to the first triangle.
Placements(x) ==
    LET lo == x \div 10000000
        hi == IF x % 10000000 = 0 THEN lo ELSE lo + 1
    IN {<<c, i>> \in (lo..hi) \X (0..hi) : i <= c}

Total(cnt) == SumOver(cnt, DOMAIN cnt)

Placed(tri) == SumOver([ch \in Channels |-> Total(Count[tri][ch])], Channels)

\* The ways the states of a channel can be filled without exceeding the
\* number of channels still available: a function from states to placements
RECURSIVE Fills(_, _, _)
Fills(ch, states, room) ==
    IF states = {} THEN {<<>>}
    ELSE LET s == CHOOSE x \in states : TRUE
         IN UNION {{g @@ (s :> p) : g \in Fills(ch, states \ {s}, room - p[1])} :
                     p \in {q \in Placements(Assigned(ch, s)) : q[1] <= room}}

Inject(ch, here, next) ==
    /\ pc = here
    /\ LET states == StatesOf(ch)
           bad == \E s \in states : TableIndex(ch, s) \notin TableIndices(ch)
       IN IF bad
          THEN /\ indexError' = TRUE
               /\ pc' = "crashed"
               /\ UNCHANGED <<assigned, used, Count>>
          ELSE /\ assigned' =
                    [assigned EXCEPT ![ch] = [s \in states |-> Assigned(ch, s)]]
               /\ used' =
                    [used EXCEPT ![ch] =
                       [idx \in TableIndices(ch) |->
                          Cardinality({s \in states : TableIndex(ch, s) = idx})]]
               /\ \E f \in Fills(ch, states,
                                   chanCap - SumOver([tri \in Tris |-> Placed(tri)],
                                                     Tris)) :
                     /\ Count' =
                          [tri \in Tris |->
                             [Count[tri] EXCEPT ![ch] =
                                [s \in states |->
                                   IF tri = 1 THEN f[s][2]
                                   ELSE f[s][1] - f[s][2]]]]
               /\ pc' = next
               /\ UNCHANGED indexError
    /\ UNCHANGED <<endt, chanCap, evCap, iclamp, total0, V, t, nextSave,
                   nsaved, nsolve, solveAtSave, nev, quiet,
                   createVars, rateVars>>

InjectNa == Inject("VGNaC", "injectNa", "injectK")

InjectK == Inject("VGKC", "injectK", "injectLeak")

InjectLeak == Inject("Leak", "injectLeak", "setup")

(***************************************************************************)
(* The run.                                                                *)
(***************************************************************************)
\* Bounds of the runs explored: a short run with up to MaxChan channels and
\* MaxEvents gating events, and a run over NSamples reporting intervals
\* with one channel and one gating event.
EndSteps == 3

MaxChan == 2

MaxEvents == 2

NSamples == 1

Configs ==
    {[endt |-> EndSteps * EfieldDT, chanCap |-> MaxChan, evCap |-> MaxEvents],
     [endt |-> NSamples * DT_sim, chanCap |-> 1, evCap |-> 1]}

InitSim ==
    /\ pc = "injectNa"
    /\ \E c \in Configs :
          endt = c.endt /\ chanCap = c.chanCap /\ evCap = c.evCap
    /\ iclamp \in {0, Iclamp}
    /\ assigned = [ch \in Channels |-> <<>>]
    /\ used = [ch \in Channels |-> <<>>]
    /\ indexError = FALSE
    /\ Count = [tri \in Tris |-> [ch \in Channels |-> [s \in StatesOf(ch) |-> 0]]]
    /\ total0 = [tri \in Tris |-> [ch \in Channels |-> 0]]
    /\ V = [tri \in Tris |-> 0]
    /\ t = 0 /\ nextSave = 0 /\ nsaved = 0 /\ nsolve = 0 /\ solveAtSave = 0
    /\ nev = 0 /\ quiet = TRUE
    /\ CreateIdle
    /\ RateIdle

\* EfieldDT, membrane.Potential, Capac, VolRes, IClamp, then run(endt)
Setup ==
    /\ pc = "setup"
    /\ V' = [tri \in Tris |-> Potential0]
    /\ total0' = [tri \in Tris |-> [ch \in Channels |-> Total(Count[tri][ch])]]
    /\ t' = 0 /\ nextSave' = 0
    /\ pc' = "run"
    /\ UNCHANGED <<endt, chanCap, evCap, iclamp, assigned, used, indexError,
                   Count, nsaved, nsolve, solveAtSave, nev, quiet,
                   createVars, rateVars>>

\* A recorder that samples at every field step
SavePeriodFieldStep == EfieldDT

\* toSave(NaCurrs, KCurrs, CellPot, dt=DT_sim)
SavePeriod == DT_sim

\* A sample is due at every multiple of DT_sim up
\* to the end of the run, and is taken before the simulation moves on.
SampleDue == nextSave <= endt /\ t >= nextSave

Sample ==
    /\ pc = "run"
    /\ SampleDue
    /\ nsaved' = nsaved + 1
    /\ solveAtSave' = nsolve
    /\ nextSave' = nextSave + SavePeriod
    /\ UNCHANGED <<pc, endt, chanCap, evCap, iclamp, assigned, used,
                   indexError, Count, total0, V, t, nsolve, nev, quiet,
                   createVars, rateVars>>

\* VDepRate(..., vrange=Vrange): the law tabulated over the range
\* (held as an explicit table: @@ builds its result once)
RateTable ==
    [law \in Laws |->
        [v \in VMin..VMax |-> HHRateFunction(law, v, 0, 0).value] @@ <<>>]
      @@ <<>>

\* The tabulated rate of a law at the potential v
VDepRate(law, v) == RateTable[law][v]

\* A propensity that forgets the population of the source state
PropensityNoCount(cnt, s, rx, v) ==
    IF s[rx.from] = 0 THEN 0 ELSE s[rx.from] * VDepRate(rx.law, v)

\* Propensity of reaction rx out of state s: every channel in s has
\* s[rx.from] subunits that can make the change, each at the rate of the law
Propensity(cnt, s, rx, v) ==
    IF cnt[s] = 0 \/ s[rx.from] = 0 THEN 0
    ELSE cnt[s] * s[rx.from] * VDepRate(rx.law, v)

GateEvent(tri, ch, s, rx) ==
    /\ pc = "run"
    /\ ~SampleDue
    /\ t < endt
    /\ nev < evCap
    /\ Propensity(Count[tri][ch], s, rx, V[tri]) > 0
    /\ Count' = [Count EXCEPT ![tri][ch] =
                    Move(@, s, Dest(s, rx.from, rx.to))]
    /\ nev' = nev + 1
    /\ UNCHANGED <<pc, endt, chanCap, evCap, iclamp, assigned, used,
                   indexError, total0, V, t, nextSave, nsaved, nsolve,
                   solveAtSave, quiet, createVars, rateVars>>

\* I = count_open * conductance * (V_local - V_reversal)
OhmicI(tri, ch) ==
    CountOpen(Count[tri][ch], ch) * Conductance(ch) * (V[tri] - Reversal(ch))

\* The clamp current that enters an element
Injected(tri) == IF tri \in InjTris THEN iclamp \div InjVerts ELSE 0

\* One field step of an element on its own: the membrane capacitance is
\* charged by the injected current and discharged through the open
\* channels, which are taken at the potential the step arrives at.
Membrane(tri) ==
    LET g == SumOver([ch \in Channels |->
                        CountOpen(Count[tri][ch], ch) * Conductance(ch)],
                     Channels)
        gE == SumOver([ch \in Channels |->
                         CountOpen(Count[tri][ch], ch) * Conductance(ch)
                           * Reversal(ch)],
                      Channels)
        cap == 1000 * Capac * TriArea
    IN TruncDiv(cap * V[tri] + EfieldDT * (Injected(tri) + gE),
                cap + EfieldDT * g)

\* The field solve: every element's own step, then the current that the
\* conduction volume carries between the elements.
Solve ==
    LET own == [tri \in Tris |-> Membrane(tri)] @@ <<>>
    IN [tri \in Tris |->
          own[tri]
            + SumOver([o \in Tris |->
                         TruncDiv(own[o] - own[tri], 4 * VolRes)],
                      Tris)] @@ <<>>

Conducting ==
    \E tri \in Tris, ch \in Channels : Count[tri][ch][OpenState(ch)] > 0

\* A run that stops as soon as it is asked to
RunOverAtOnce(now, end) == TRUE

\* run(end): no further field step fits before the end time
RunOver(now, end) == now + EfieldDT > end

\* run(end) advances the clock by one field period while one still fits
Advance ==
    /\ pc = "run"
    /\ ~SampleDue
    /\ ~RunOver(t, endt)
    /\ t' = t + EfieldDT

FieldStep ==
    /\ Advance
    /\ V' = Solve
    /\ nsolve' = nsolve + 1
    /\ quiet' = (quiet /\ iclamp = 0 /\ ~Conducting)
    \* a potential outside Vrange is fatal
    /\ pc' = IF \E tri \in Tris : V'[tri] < VMin \/ V'[tri] > VMax
             THEN "aborted" ELSE "run"
    /\ UNCHANGED <<endt, chanCap, evCap, iclamp, assigned, used, indexError,
                   Count, total0, nextSave, nsaved, solveAtSave, nev,
                   createVars, rateVars>>

Finish ==
    /\ pc = "run"
    /\ ~SampleDue
    /\ RunOver(t, endt)
    /\ t' = IF t < endt THEN endt ELSE t
    /\ pc' = "done"
    /\ UNCHANGED <<endt, chanCap, evCap, iclamp, assigned, used, indexError,
                   Count, total0, V, nextSave, nsaved, nsolve, solveAtSave,
                   nev, quiet, createVars, rateVars>>

Gate ==
    \E tri \in Tris, ch \in Channels :
        \E s \in StatesOf(ch), rx \in Reactions(ch) : GateEvent(tri, ch, s, rx)

Script == InjectNa \/ InjectK \/ InjectLeak \/ Setup \/ Sample \/ FieldStep \/ Finish

Next == Script \/ Gate

Spec == InitSim /\ [][Next]_vars

\* The script waits for nothing: a due sample is taken, the clock of a run in
\* progress advances, and a run whose time is up returns.
SpecFair == Spec /\ WF_vars(Sample) /\ WF_t(Advance) /\ WF_vars(Finish)

(***************************************************************************)
(* Properties.                                                             *)
(***************************************************************************)
Running == pc \in {"run", "done", "aborted"}

\* C1 (conservation): on every element and for every channel type the
\* counts over all states add up to the total set at injection, whatever
\* gating events and field steps have happened.
C1_Conservation ==
    Running =>
        \A tri \in Tris, ch \in Channels :
            Total(Count[tri][ch]) = total0[tri][ch]

C1_Witness ==
    /\ pc = "done"
    /\ nev = MaxEvents
    /\ nsolve = EndSteps
    /\ \E tri \in Tris :
          total0[tri]["VGKC"] = 1 /\ Count[tri]["VGKC"][OpenState("VGKC")] = 1

\* C2 (no negative count): every count is >= 0 in every reachable state,
\* and a gating transition whose source state is empty on an element is
\* not enabled there.
C2_NonNegative ==
    /\ \A tri \in Tris, ch \in Channels :
          \A s \in StatesOf(ch) : Count[tri][ch][s] >= 0
    /\ \A tri \in Tris, ch \in Channels :
          \A s \in StatesOf(ch), rx \in Reactions(ch) :
              Count[tri][ch][s] = 0 => ~ENABLED GateEvent(tri, ch, s, rx)

\* An event has emptied a source state, which leaves its transitions
\* disabled while another transition of the element can still fire.
C2_Witness ==
    /\ pc = "run" /\ nev = 1 /\ nev < evCap /\ t < endt /\ ~SampleDue
    /\ \E tri \in Tris :
          LET n1 == StateOf(<<"Ko", "Kc", "Kc", "Kc">>, Names(VGKC))
              n0 == StateOf(<<"Kc", "Kc", "Kc", "Kc">>, Names(VGKC))
              open == [from |-> "Kc", to |-> "Ko", law |-> "a_n"]
          IN /\ Count[tri]["VGKC"][n0] = 0
             /\ Count[tri]["VGKC"][n1] = 1
             /\ total0[tri]["VGKC"] = 1
             /\ ~ENABLED GateEvent(tri, "VGKC", n0, open)
             /\ ENABLED GateEvent(tri, "VGKC", n1, open)

\* One subunit of a channel in state s changes as a declared reaction says
OneSubunit(ch, s, d) ==
    \E rx \in Reactions(ch) :
        /\ s[rx.from] >= 1
        /\ d[rx.from] = s[rx.from] - 1
        /\ d[rx.to] = s[rx.to] + 1
        /\ \A n \in DOMAIN s : n \notin {rx.from, rx.to} => d[n] = s[n]

\* C4 (frame of a gating event): an event takes one channel out of one
\* source state and puts it into one destination state that differs from
\* the source in exactly one subunit, along a declared reaction; every other
\* state, channel type, element and every potential is left as it was.
C4_OneChannelMoves ==
    [][nev' # nev =>
        /\ nev' = nev + 1
        /\ V' = V
        /\ \E tri \in Tris, ch \in Channels :
             \E s \in StatesOf(ch), d \in StatesOf(ch) :
                /\ Count[tri][ch][s] >= 1
                /\ Count'[tri][ch][s] = Count[tri][ch][s] - 1
                /\ Count'[tri][ch][d] = Count[tri][ch][d] + 1
                /\ s # d
                /\ Distance(s, d) = 1
                /\ OneSubunit(ch, s, d)
                /\ \A o \in StatesOf(ch) \ {s, d} :
                      Count'[tri][ch][o] = Count[tri][ch][o]
                /\ \A oc \in Channels \ {ch} : Count'[tri][oc] = Count[tri][oc]
                /\ \A ot \in Tris \ {tri} : Count'[ot] = Count[ot]]_vars

\* After an event on one element while the other element holds a channel
\* of another type.
C4_Witness ==
    /\ pc = "run" /\ nev = 1
    /\ total0[1]["VGNaC"] = 1 /\ total0[2]["VGKC"] = 1
    /\ \E s \in StatesOf("VGNaC") :
          Count[1]["VGNaC"][s] = 1 /\ s["Na_mo"] = 2 /\ s["Na_ha"] = 1

\* C6 (steady state): the current of an ohmic current on an element is
\* the count of its one open state times its conductance times
\* (V - reversal); with no injected current and no channel in a conducting
\* state at any field step so far, every element is still at the initial
\* resting potential.
C6_RestingPotential ==
    Running =>
        /\ \A tri \in Tris, ch \in Channels :
              OhmicI(tri, ch) =
                 Count[tri][ch][OpenState(ch)] * Conductance(ch)
                    * (V[tri] - Reversal(ch))
        /\ quiet => \A tri \in Tris : V[tri] = Potential0

\* A whole quiet run with a closed channel on the membrane that gated.
C6_Witness ==
    /\ pc = "done" /\ quiet /\ iclamp = 0
    /\ nsolve = EndSteps /\ nev >= 1
    /\ \E tri \in Tris : total0[tri]["VGKC"] = 1
    /\ \A tri \in Tris : V[tri] = Potential0

\* C7 (termination): a started run ends; it ends either done, exactly at
\* the requested end time and after endt/EfieldDT field steps, or aborted
\* by a field step whose potential left the tabulated range; the time never
\* passes the end time and an ended run does nothing more.
C7_RunEnds ==
    /\ (pc = "run") ~> (pc \in {"done", "aborted"})
    /\ [](t <= endt)
    /\ [](pc = "done" => t = endt /\ nsolve * EfieldDT = endt)
    /\ [](pc = "aborted" => \E tri \in Tris : V[tri] < VMin \/ V[tri] > VMax)
    /\ [][(pc \in {"done", "aborted"}) => UNCHANGED vars]_vars
    /\ [][pc' = "aborted" /\ pc # "aborted" => nsolve' = nsolve + 1]_vars

C7_Witness ==
    /\ pc = "done"
    /\ endt = NSamples * DT_sim
    /\ t = endt
    /\ nsolve = NSamples * 10
    /\ nev = 1

\* C9 (only the field solve changes the potential): during a run the
\* potentials change only in a field solve, which advances the time by
\* EfieldDT; a gating event changes neither potential nor time; taking a
\* sample changes neither counts nor potentials; and ten field solves lie
\* between one sample and the next.
C9_FieldOnlyBySolve ==
    [][/\ (pc = "run" /\ V' # V) => (nsolve' = nsolve + 1 /\ nev' = nev)
       /\ (nsolve' # nsolve) =>
             (nsolve' = nsolve + 1 /\ t' = t + EfieldDT /\ Count' = Count)
       /\ (pc = "run" /\ t' # t /\ pc' # "done") => nsolve' = nsolve + 1
       /\ (nev' # nev) => (V' = V /\ t' = t /\ nsolve' = nsolve)
       /\ (nsaved' # nsaved) =>
             (nsaved' = nsaved + 1 /\ Count' = Count /\ V' = V /\ t' = t)
       /\ (nsaved' # nsaved /\ nsaved >= 1) => nsolve = solveAtSave + 10
      ]_vars

C9_Witness ==
    /\ nsaved = 2
    /\ nsolve = 10
    /\ nev = 1
    /\ \E tri \in Tris : V[tri] # Potential0

\* C10 (injection covers the state space): once a channel type has been
\* injected, every one of its states was given exactly one value, the
\* table index of every state lies inside the table (2 x 4 for Na_facs,
\* 5 for K_facs), every table entry was read for exactly one state, and the
\* values given add up to density * area * (sum of the table's entries).
C10_InjectionCovers ==
    /\ ~indexError
    /\ assigned["VGNaC"] # <<>> =>
          /\ DOMAIN assigned["VGNaC"] = StatesOf("VGNaC")
          /\ \A s \in StatesOf("VGNaC") :
                /\ CountOf(s, "Na_ha") \in 0..1
                /\ CountOf(s, "Na_mo") \in 0..3
          /\ DOMAIN used["VGNaC"] = (0..1) \X (0..3)
          /\ \A idx \in (0..1) \X (0..3) : used["VGNaC"][idx] = 1
          /\ Total(assigned["VGNaC"]) =
                Na_ro * SurfArea * (SeqSum(Na_facs[1]) + SeqSum(Na_facs[2]))
    /\ assigned["VGKC"] # <<>> =>
          /\ DOMAIN assigned["VGKC"] = StatesOf("VGKC")
          /\ \A s \in StatesOf("VGKC") : CountOf(s, "Ko") \in 0..4
          /\ DOMAIN used["VGKC"] = {<<i>> : i \in 0..4}
          /\ \A i \in 0..4 : used["VGKC"][<<i>>] = 1
          /\ Total(assigned["VGKC"]) = K_ro * SurfArea * SeqSum(K_facs)

C10_Witness ==
    /\ pc = "run"
    /\ Cardinality(DOMAIN assigned["VGNaC"]) = 8
    /\ Cardinality(DOMAIN assigned["VGKC"]) = 5
    /\ Total(assigned["VGKC"]) = K_ro * SurfArea * 100000

====
